---- MODULE Spec2Model ----
(***************************************************************************)
(* A model of the back half of the compiler: the location allocator        *)
(* (regalloc.py), the optimisation passes (optimizer.py), the IR builder   *)
(* (ir.py) and the two emitters (codegen.py, llvm_codegen.py).             *)
(*                                                                         *)
(* Python strings are modelled as sequences of one-character strings, so   *)
(* that startswith, slicing, isdigit, split and concatenation are computed *)
(* the way the code computes them.  None is the one-element sequence       *)
(* <<"None">>, which no character sequence can equal.                      *)
(***************************************************************************)
EXTENDS Integers, Sequences, FiniteSets, TLC

VARIABLES
    regalloc,   \* RegisterAllocator: [free_regs, locations, next_slot]
    last,       \* the last allocator call: [op, name, ret, repeat]
    first,      \* name -> location its first locate returned since the reset
    forced,     \* name -> the slot its latest allocate_stack_slot assigned since the reset
    nforced,    \* allocate_stack_slot calls since the reset
    tac,        \* the instruction list handed to the optimizer
    optimized_tac,  \* the list the last pass returned
    prev,       \* the list the last pass was given
    done,       \* the passes applied so far, in order
    status,     \* "ok", or "error" once a pass has raised
    prog,       \* the checked program (an AST), NoNode when the run starts from a list
    stage,      \* "checked": prog awaits lowering; "lowered": tac is there
    asm,        \* CodeGenerator.asm: the native listing (regalloc is its allocator)
    llvm_ir_lines   \* the listing LLVMCodeGenerator.generate returned

allocVars == <<regalloc, last, first, forced, nforced>>
optVars == <<tac, optimized_tac, prev, done, status>>
srcVars == <<prog, stage>>
emitVars == <<asm, llvm_ir_lines>>
pipeVars == <<optVars, srcVars, emitVars>>
vars == <<regalloc, last, first, forced, nforced,
         tac, optimized_tac, prev, done, status, prog, stage, asm, llvm_ir_lines>>

(***************************************************************************)
(* Strings                                                                 *)
(***************************************************************************)
None == <<"None">>

Digits == {"0", "1", "2", "3", "4", "5", "6", "7", "8", "9"}

DigitVal(c) ==
    CASE c = "0" -> 0 [] c = "1" -> 1 [] c = "2" -> 2 [] c = "3" -> 3
      [] c = "4" -> 4 [] c = "5" -> 5 [] c = "6" -> 6 [] c = "7" -> 7
      [] c = "8" -> 8 [] c = "9" -> 9

DigitChar(d) == <<"0", "1", "2", "3", "4", "5", "6", "7", "8", "9">>[d + 1]

\* str(n) for an int n
RECURSIVE StrNat(_)
StrNat(n) == IF n < 10 THEN <<DigitChar(n)>>
             ELSE StrNat(n \div 10) \o <<DigitChar(n % 10)>>

Str(n) == IF n < 0 THEN <<"-">> \o StrNat(-n) ELSE StrNat(n)

\* c in s
\* the suffix of x that starts at its first c, empty when there is none
RECURSIVE SplitAt(_, _)
SplitAt(x, c) == IF x = <<>> \/ Head(x) = c THEN x ELSE SplitAt(Tail(x), c)

\* e, once x has its value: Python evaluates a statement before the next one
Then(x, e) == IF x = x THEN e ELSE e

Contains(s, c) == \E i \in 1..Len(s) : s[i] = c

(***************************************************************************)
(* regalloc.py                                                             *)
(***************************************************************************)
rax == <<"r", "a", "x">>
rbx == <<"r", "b", "x">>
rcx == <<"r", "c", "x">>
rdx == <<"r", "d", "x">>

PoolRegs == <<rax, rbx, rcx, rdx>>

\* f"[rbp-{offset}]"
SlotLoc(offset) == <<"[", "r", "b", "p", "-">> \o Str(offset) \o <<"]">>

EmptyDict == [n \in {} |-> None]

DictSet(d, k, v) == [n \in (DOMAIN d) \cup {k} |-> IF n = k THEN v ELSE d[n]]

NewAllocator == [free_regs |-> PoolRegs, locations |-> EmptyDict, next_slot |-> 0]

\* reset(): the pool restored, the mappings cleared, the slot counter zeroed
reset(ra) == [free_regs |-> PoolRegs, locations |-> EmptyDict, next_slot |-> 0]

\* a mutant of allocate: no lookup of an already assigned name
allocate_nolookup(ra, name) ==
    IF ra.free_regs # <<>>
    THEN [ra  |-> [ra EXCEPT !.free_regs = Tail(@),
                             !.locations = DictSet(@, name, Head(ra.free_regs))],
          loc |-> Head(ra.free_regs)]
    ELSE [ra  |-> [ra EXCEPT !.next_slot = @ + 8,
                             !.locations = DictSet(@, name, SlotLoc(ra.next_slot + 8))],
          loc |-> SlotLoc(ra.next_slot + 8)]

\* a mutant of allocate: the pool is used as a stack (pop() for pop(0))
allocate_poplast(ra, name) ==
    IF name \in DOMAIN ra.locations
    THEN [ra |-> ra, loc |-> ra.locations[name]]
    ELSE IF ra.free_regs # <<>>
    THEN LET r == ra.free_regs[Len(ra.free_regs)]
         IN [ra  |-> [ra EXCEPT !.free_regs = SubSeq(@, 1, Len(@) - 1),
                                !.locations = DictSet(@, name, r)],
             loc |-> r]
    ELSE [ra  |-> [ra EXCEPT !.next_slot = @ + 8,
                             !.locations = DictSet(@, name, SlotLoc(ra.next_slot + 8))],
          loc |-> SlotLoc(ra.next_slot + 8)]

\* allocate(name): returns the allocator after the call and the location
allocate(ra, name) ==
    IF name \in DOMAIN ra.locations
    THEN [ra |-> ra, loc |-> ra.locations[name]]
    ELSE IF ra.free_regs # <<>>
    THEN [ra  |-> [ra EXCEPT !.free_regs = Tail(@),
                             !.locations = DictSet(@, name, Head(ra.free_regs))],
          loc |-> Head(ra.free_regs)]
    ELSE [ra  |-> [ra EXCEPT !.next_slot = @ + 8,
                             !.locations = DictSet(@, name, SlotLoc(ra.next_slot + 8))],
          loc |-> SlotLoc(ra.next_slot + 8)]

\* get_location(name)
get_location(ra, name) ==
    LET r == IF name \notin DOMAIN ra.locations THEN allocate(ra, name).ra ELSE ra
    IN [ra |-> r, loc |-> r.locations[name]]

\* a mutant of allocate_stack_slot: the slot counter is not advanced
allocate_stack_slot_nobump(ra, name) ==
    [ra  |-> [ra EXCEPT !.locations = DictSet(@, name, SlotLoc(ra.next_slot + 8))],
     off |-> ra.next_slot + 8]

\* allocate_stack_slot(name): returns the raw offset
allocate_stack_slot(ra, name) ==
    [ra  |-> [ra EXCEPT !.next_slot = @ + 8,
                        !.locations = DictSet(@, name, SlotLoc(ra.next_slot + 8))],
     off |-> ra.next_slot + 8]

\* stack_size(): next_slot rounded up to 16
stack_size(ra) == ((ra.next_slot + 15) \div 16) * 16

(***************************************************************************)
(* ir.py: the Instruction record                                           *)
(***************************************************************************)
Instruction(op, dest, arg1, arg2, label) ==
    [op |-> op, dest |-> dest, arg1 |-> arg1, arg2 |-> arg2, label |-> label]

\* Python truthiness of an optional string: neither None nor ''
Truthy(x) == x # None /\ x # <<>>

\* str.isdigit(): non-empty and every character a digit
isdigit(x) == x # None /\ Len(x) > 0 /\ \A i \in 1..Len(x) : x[i] \in Digits

\* str.startswith(prefix)
startswith(x, prefix) ==
    /\ Len(x) >= Len(prefix)
    /\ \A i \in 1..Len(prefix) : x[i] = prefix[i]

\* int(x) of a digit string
RECURSIVE ParseInt(_)
ParseInt(x) == IF Len(x) = 0 THEN 0
               ELSE 10 * ParseInt(SubSeq(x, 1, Len(x) - 1)) + DigitVal(x[Len(x)])

\* the digits of num / den after the decimal point, by long division (num < den);
\* repr of a float prints at most 17 significant digits
RECURSIVE FracDigits(_, _, _)
FracDigits(num, den, fuel) ==
    IF num = 0 \/ fuel = 0 THEN <<>>
    ELSE <<DigitChar((10 * num) \div den)>> \o FracDigits((10 * num) % den, den, fuel - 1)

\* str(a / b): Python's true division yields a float, printed with a decimal point
FloatStr(a, b) ==
    StrNat(a \div b) \o <<".">> \o
        (IF a % b = 0 THEN <<"0">> ELSE FracDigits(a % b, b, 16))

(***************************************************************************)
(* optimizer.py                                                            *)
(***************************************************************************)
FoldSyms == <<"+", "-", "*", "/", "%">>

\* the binop's arg2 starts with one of the five symbols and both the left
\* operand and the rest of arg2 are digit strings
Foldable(instr) ==
    /\ instr.op = "binop"
    /\ Len(instr.arg2) >= 1
    /\ \E k \in 1..5 : instr.arg2[1] = FoldSyms[k]
    /\ isdigit(instr.arg1)
    /\ isdigit(Tail(instr.arg2))

\* eval raises ZeroDivisionError
FoldRaises(instr) ==
    /\ Foldable(instr)
    /\ instr.arg2[1] \in {"/", "%"}
    /\ ParseInt(Tail(instr.arg2)) = 0

\* str(eval(f"{left}{sym}{right}")) for digit strings left and right, right # 0
\* under / and %
EvalStr(left, sym, right) ==
    LET l == ParseInt(left)
        r == ParseInt(right)
    IN CASE sym = "+" -> Str(l + r)
         [] sym = "-" -> Str(l - r)
         [] sym = "*" -> Str(l * r)
         [] sym = "/" -> FloatStr(l, r)
         [] sym = "%" -> Str(l % r)

\* one iteration of constant_folding's loop; st = [new_ir, consts]
CFStep(st, instr) ==
    IF instr.op = "binop"
    THEN IF Foldable(instr)
         THEN LET result == EvalStr(instr.arg1, instr.arg2[1], Tail(instr.arg2))
              IN [new_ir |-> Append(st.new_ir,
                                    Instruction("assign", instr.dest, result, None, None)),
                  consts |-> DictSet(st.consts, instr.dest, result)]
         ELSE [st EXCEPT !.new_ir = Append(@, instr)]
    ELSE LET i1 == IF instr.arg1 \in DOMAIN st.consts
                   THEN [instr EXCEPT !.arg1 = st.consts[instr.arg1]] ELSE instr
             i2 == IF instr.arg2 \in DOMAIN st.consts
                   THEN [i1 EXCEPT !.arg2 = st.consts[instr.arg2]] ELSE i1
         IN [st EXCEPT !.new_ir = Append(@, i2)]

\* the loop over ir[lo..hi], in order
RECURSIVE CFLoop(_, _, _, _)
CFLoop(ir, lo, hi, st) ==
    IF lo > hi THEN st
    ELSE IF lo = hi THEN CFStep(st, ir[lo])
    ELSE LET mid == (lo + hi) \div 2
             st1 == CFLoop(ir, lo, mid, st)
         IN Then(st1, CFLoop(ir, mid + 1, hi, st1))

\* constant_folding raises when it reaches a foldable division by zero
constant_folding_raises(ir) == \E i \in 1..Len(ir) : FoldRaises(ir[i])

constant_folding(ir) ==
    CFLoop(ir, 1, Len(ir), [new_ir |-> <<>>, consts |-> EmptyDict]).new_ir

\* the operands of instr that count as used: non-empty, non-digit arg1 and arg2
UsedArgs(instr) ==
    (IF Truthy(instr.arg1) /\ ~isdigit(instr.arg1) THEN {instr.arg1} ELSE {}) \cup
    (IF Truthy(instr.arg2) /\ ~isdigit(instr.arg2) THEN {instr.arg2} ELSE {})

\* the first loop of dead_code_elimination
CollectUsed(ir) == UNION {UsedArgs(ir[i]) : i \in 1..Len(ir)}

\* a mutant of DCEStep: any instruction with an unused destination is dropped
DCEStep_anyop(st, instr) ==
    IF Truthy(instr.dest) /\ instr.dest \notin st.used
    THEN st
    ELSE [new_ir |-> <<instr>> \o st.new_ir,
          used   |-> st.used \cup UsedArgs(instr) \cup
                     (IF Truthy(instr.dest) THEN {instr.dest} ELSE {})]

\* one iteration of the reverse scan; st = [new_ir, used]
DCEStep(st, instr) ==
    IF Truthy(instr.dest) /\ instr.op = "assign" /\ instr.dest \notin st.used
    THEN st
    ELSE [new_ir |-> <<instr>> \o st.new_ir,
          used   |-> st.used \cup UsedArgs(instr) \cup
                     (IF Truthy(instr.dest) THEN {instr.dest} ELSE {})]

\* the reverse scan over ir[lo..hi], from hi down to lo
RECURSIVE DCELoop(_, _, _, _)
DCELoop(ir, lo, hi, st) ==
    IF lo > hi THEN st
    ELSE IF lo = hi THEN DCEStep(st, ir[lo])
    ELSE LET mid == (lo + hi) \div 2
             st1 == DCELoop(ir, mid + 1, hi, st)
         IN Then(st1, DCELoop(ir, lo, mid, st1))

dead_code_elimination(ir) ==
    DCELoop(ir, 1, Len(ir), [new_ir |-> <<>>, used |-> CollectUsed(ir)]).new_ir

shl1 == <<"s", "h", "l", "1">>

strength_reduction(ir) ==
    [i \in 1..Len(ir) |->
        IF ir[i].op = "binop" /\ ir[i].arg2 = <<"*", "2">>
        THEN Instruction("unop", ir[i].dest, shl1, ir[i].arg1, None)
        ELSE ir[i]]

\* one iteration of common_subexpression_elimination; st = [new_ir, expr_map]
CSEStep(st, instr) ==
    LET key == <<instr.op, instr.arg1, instr.arg2>>
    IN IF instr.op = "binop"
       THEN IF key \in DOMAIN st.expr_map
            THEN [st EXCEPT !.new_ir = Append(@,
                    Instruction("assign", instr.dest, st.expr_map[key], None, None))]
            ELSE [new_ir |-> Append(st.new_ir, instr),
                  expr_map |-> DictSet(st.expr_map, key, instr.dest)]
       ELSE [st EXCEPT !.new_ir = Append(@, instr)]

\* the forward scan over ir[lo..hi]
RECURSIVE CSELoop(_, _, _, _)
CSELoop(ir, lo, hi, st) ==
    IF lo > hi THEN st
    ELSE IF lo = hi THEN CSEStep(st, ir[lo])
    ELSE LET mid == (lo + hi) \div 2
             st1 == CSELoop(ir, lo, mid, st)
         IN Then(st1, CSELoop(ir, mid + 1, hi, st1))

common_subexpression_elimination(ir) ==
    CSELoop(ir, 1, Len(ir), [new_ir |-> <<>>, expr_map |-> EmptyDict]).new_ir

\* the index of the first label end_lbl at or after j, or Len(ir) + 1
FindEnd(ir, j, end_lbl) ==
    LET at == {k \in j..Len(ir) : ir[k].op = "label" /\ ir[k].label = end_lbl}
    IN IF at = {} THEN Len(ir) + 1 ELSE CHOOSE k \in at : \A h \in at : k <= h

\* the instructions of body that loop_invariant_motion takes for invariant
Invariants(body) ==
    LET defs == {body[k].dest : k \in {k \in 1..Len(body) : Truthy(body[k].dest)}}
    IN SelectSeq(body, LAMBDA ins :
          /\ Truthy(ins.dest)
          /\ ins.op \in {"binop", "unop", "assign"}
          /\ ins.arg1 \notin defs
          /\ (~Truthy(ins.arg2) \/ ins.arg2 \notin defs))

\* the while loop of loop_invariant_motion at index i; st = [new_ir, i], where
\* st.i is the index the loop has advanced to
LIMStep(ir, st, i) ==
    IF i < st.i THEN st
    ELSE LET instr == ir[i]
             out   == Append(st.new_ir, instr)
         IN IF instr.op = "label" /\ Truthy(instr.label)
                /\ startswith(instr.label, <<"f", "o", "r">>)
            THEN LET end_lbl == instr.label \o <<"e", "n", "d">>
                     j       == FindEnd(ir, i + 1, end_lbl)
                 IN IF j <= Len(ir)
                    THEN LET body == SubSeq(ir, i + 1, j - 1)
                         IN [new_ir |-> out \o Invariants(body) \o body, i |-> j + 1]
                    ELSE [new_ir |-> out, i |-> i + 1]
            ELSE [new_ir |-> out, i |-> i + 1]

\* the loop over the indices lo..hi
RECURSIVE LIMLoop(_, _, _, _)
LIMLoop(ir, lo, hi, st) ==
    IF lo > hi THEN st
    ELSE IF lo = hi THEN LIMStep(ir, st, lo)
    ELSE LET mid == (lo + hi) \div 2
             st1 == LIMLoop(ir, lo, mid, st)
         IN Then(st1, LIMLoop(ir, mid + 1, hi, st1))

loop_invariant_motion(ir) == LIMLoop(ir, 1, Len(ir), [new_ir |-> <<>>, i |-> 1]).new_ir

optimize(ir) ==
    loop_invariant_motion(
        common_subexpression_elimination(
            strength_reduction(
                dead_code_elimination(
                    constant_folding(ir)))))

(***************************************************************************)
(* ast_nodes.py: the nodes the Builder reads.  An absent optional child      *)
(* (Python None) is the node NoNode.                                       *)
(***************************************************************************)
NoNode == [type |-> "NoneType"]

Program(funcs)             == [type |-> "Program", funcs |-> funcs]
FuncDecl(name, body)       == [type |-> "FuncDecl", name |-> name, body |-> body]
Block(stmts)               == [type |-> "Block", stmts |-> stmts]
VarDecl(name, init)        == [type |-> "VarDecl", name |-> name, init |-> init]
Assign(name, expr)         == [type |-> "Assign", name |-> name, expr |-> expr]
IfStmt(cond, thenb, elseb) == [type |-> "IfStmt", cond |-> cond, thenb |-> thenb,
                               elseb |-> elseb]
WhileStmt(cond, body)      == [type |-> "WhileStmt", cond |-> cond, body |-> body]
ForStmt(init, cond, post, body) ==
    [type |-> "ForStmt", init |-> init, cond |-> cond, post |-> post, body |-> body]
SwitchStmt(expr, cases)    == [type |-> "SwitchStmt", expr |-> expr, cases |-> cases]
Case(value, body)          == [type |-> "Case", value |-> value, body |-> body]
ReturnStmt(expr)           == [type |-> "ReturnStmt", expr |-> expr]
PrintStmt(expr)            == [type |-> "PrintStmt", expr |-> expr]
ReadStmt(name)             == [type |-> "ReadStmt", name |-> name]
ReadExpr                   == [type |-> "ReadExpr"]
BinOp(op, left, right)     == [type |-> "BinOp", op |-> op, left |-> left, right |-> right]
UnOp(op, expr)             == [type |-> "UnOp", op |-> op, expr |-> expr]
Literal(value)             == [type |-> "Literal", value |-> value]
VarRef(name)               == [type |-> "VarRef", name |-> name]
FuncCall(name, args)       == [type |-> "FuncCall", name |-> name, args |-> args]

(***************************************************************************)
(* ir.py: IRGenerator.  A generator state g is [temp_cnt, label_cnt, code]; *)
(* a _gen_* operator returns [g |-> the state after, val |-> its result].  *)
(***************************************************************************)
NewGenerator == [temp_cnt |-> 0, label_cnt |-> 0, code |-> <<>>]

\* new_temp(): "t" and the counter
new_temp(g) == [g |-> [g EXCEPT !.temp_cnt = @ + 1], val |-> <<"t">> \o Str(g.temp_cnt)]

\* new_label(base): base and the counter
new_label(g, base) ==
    [g |-> [g EXCEPT !.label_cnt = @ + 1], val |-> base \o Str(g.label_cnt)]

\* _emit(instr)
Emit(g, instr) == [g EXCEPT !.code = Append(@, instr)]

\* ','.join(args)
RECURSIVE JoinComma(_)
JoinComma(args) ==
    IF Len(args) = 0 THEN <<>>
    ELSE IF Len(args) = 1 THEN args[1]
    ELSE args[1] \o <<",">> \o JoinComma(Tail(args))

RECURSIVE Gen(_, _)
RECURSIVE GenBlock(_, _, _, _)
RECURSIVE GenArgs(_, _, _, _)
RECURSIVE SwitchLabels(_, _, _)
RECURSIVE SwitchTests(_, _, _, _)
RECURSIVE SwitchBodies(_, _, _, _)

\* _gen_Block: the statements lo..hi of the block in order
GenBlock(g, node, lo, hi) ==
    IF lo > hi THEN g
    ELSE IF lo = hi THEN Gen(g, node.stmts[lo]).g
    ELSE LET mid == (lo + hi) \div 2
             g1  == GenBlock(g, node, lo, mid)
         IN Then(g1, GenBlock(g1, node, mid + 1, hi))

\* the arguments of a call left to right; vals collects their values
GenArgs(g, args, i, vals) ==
    IF i > Len(args) THEN [g |-> g, val |-> vals]
    ELSE LET a == Gen(g, args[i])
         IN GenArgs(a.g, args, i + 1, Append(vals, a.val))

\* _gen_SwitchStmt, first loop: one label per case; st = [g, labels, default_lbl]
SwitchLabels(st, cases, i) ==
    IF i > Len(cases) THEN st
    ELSE LET l == new_label(st.g, <<"c", "a", "s", "e">>)
         IN SwitchLabels([g |-> l.g,
                          labels |-> Append(st.labels, l.val),
                          default_lbl |-> IF cases[i].value = NoNode THEN l.val
                                          ELSE st.default_lbl],
                         cases, i + 1)

\* second loop: a comparison and an ifnz per value-bearing case
SwitchTests(g, cases, i, ctx) ==
    IF i > Len(cases) THEN g
    ELSE IF cases[i].value # NoNode
    THEN LET v   == Gen(g, cases[i].value)
             tmp == new_temp(v.g)
             g1  == Emit(tmp.g, Instruction("binop", tmp.val, ctx.expr,
                                           <<"=", "=", " ">> \o v.val, None))
             g2  == Emit(g1, Instruction("ifnz", None, tmp.val, None, ctx.labels[i]))
         IN SwitchTests(g2, cases, i + 1, ctx)
    ELSE SwitchTests(g, cases, i + 1, ctx)

\* third loop: each case's label, body and jump to the end
SwitchBodies(g, cases, i, ctx) ==
    IF i > Len(cases) THEN g
    ELSE LET g1 == Emit(g, Instruction("label", None, None, None, ctx.labels[i]))
             g2 == GenBlock(g1, cases[i].body, 1, Len(cases[i].body.stmts))
             g3 == Emit(g2, Instruction("goto", None, None, None, ctx.end_lbl))
         IN SwitchBodies(g3, cases, i + 1, ctx)

\* _gen: dispatch on the node's class
Gen(g, node) ==
    CASE node.type = "Block" -> [g |-> GenBlock(g, node, 1, Len(node.stmts)), val |-> None]
      [] node.type = "ReturnStmt" ->
            LET v == Gen(g, node.expr)
            IN [g |-> Emit(v.g, Instruction("ret", None, v.val, None, None)), val |-> None]
      [] node.type = "PrintStmt" ->
            LET v == Gen(g, node.expr)
            IN [g |-> Emit(v.g, Instruction("print", None, v.val, None, None)), val |-> None]
      [] node.type = "VarDecl" ->
            IF node.init # NoNode
            THEN LET v == Gen(g, node.init)
                 IN [g |-> Emit(v.g, Instruction("assign", node.name, v.val, None, None)),
                     val |-> None]
            ELSE [g |-> g, val |-> None]
      [] node.type = "Assign" ->
            LET v == Gen(g, node.expr)
            IN [g |-> Emit(v.g, Instruction("assign", node.name, v.val, None, None)),
                val |-> None]
      [] node.type = "IfStmt" ->
            LET else_lbl == new_label(g, <<"e", "l", "s", "e">>)
                end_lbl  == new_label(else_lbl.g, <<"i", "f", "e", "n", "d">>)
                cond     == Gen(end_lbl.g, node.cond)
                g1 == Emit(cond.g, Instruction("ifz", None, cond.val, None, else_lbl.val))
                g2 == GenBlock(g1, node.thenb, 1, Len(node.thenb.stmts))
                g3 == Emit(g2, Instruction("goto", None, None, None, end_lbl.val))
                g4 == Emit(g3, Instruction("label", None, None, None, else_lbl.val))
                g5 == IF node.elseb # NoNode THEN GenBlock(g4, node.elseb, 1, Len(node.elseb.stmts)) ELSE g4
            IN [g |-> Emit(g5, Instruction("label", None, None, None, end_lbl.val)),
                val |-> None]
      [] node.type = "WhileStmt" ->
            LET start == new_label(g, <<"w", "h", "i", "l", "e">>)
                end   == new_label(start.g, <<"w", "e", "n", "d">>)
                g1 == Emit(end.g, Instruction("label", None, None, None, start.val))
                cond == Gen(g1, node.cond)
                g2 == Emit(cond.g, Instruction("ifz", None, cond.val, None, end.val))
                g3 == GenBlock(g2, node.body, 1, Len(node.body.stmts))
                g4 == Emit(g3, Instruction("goto", None, None, None, start.val))
            IN [g |-> Emit(g4, Instruction("label", None, None, None, end.val)),
                val |-> None]
      [] node.type = "ForStmt" ->
            LET start == new_label(g, <<"f", "o", "r">>)
                end   == new_label(start.g, <<"f", "o", "r", "e", "n", "d">>)
                g1 == IF node.init # NoNode THEN Gen(end.g, node.init).g ELSE end.g
                g2 == Emit(g1, Instruction("label", None, None, None, start.val))
                g3 == IF node.cond # NoNode
                      THEN LET c == Gen(g2, node.cond)
                           IN Emit(c.g, Instruction("ifz", None, c.val, None, end.val))
                      ELSE g2
                g4 == GenBlock(g3, node.body, 1, Len(node.body.stmts))
                g5 == IF node.post # NoNode THEN Gen(g4, node.post).g ELSE g4
                g6 == Emit(g5, Instruction("goto", None, None, None, start.val))
            IN [g |-> Emit(g6, Instruction("label", None, None, None, end.val)),
                val |-> None]
      [] node.type = "SwitchStmt" ->
            LET end_lbl == new_label(g, <<"s", "w", "e", "n", "d">>)
                expr    == Gen(end_lbl.g, node.expr)
                ls      == SwitchLabels([g |-> expr.g, labels |-> <<>>, default_lbl |-> None],
                                        node.cases, 1)
                ctx     == [expr |-> expr.val, labels |-> ls.labels, end_lbl |-> end_lbl.val]
                g1 == SwitchTests(ls.g, node.cases, 1, ctx)
                g2 == Emit(g1, Instruction("goto", None, None, None,
                                IF Truthy(ls.default_lbl) THEN ls.default_lbl
                                ELSE end_lbl.val))
                g3 == SwitchBodies(g2, node.cases, 1, ctx)
            IN [g |-> Emit(g3, Instruction("label", None, None, None, end_lbl.val)),
                val |-> None]
      [] node.type = "BinOp" ->
            LET l == Gen(g, node.left)
                r == Gen(l.g, node.right)
                t == new_temp(r.g)
            IN [g |-> Emit(t.g, Instruction("binop", t.val, l.val,
                                            node.op \o <<" ">> \o r.val, None)),
                val |-> t.val]
      [] node.type = "UnOp" ->
            LET v == Gen(g, node.expr)
                t == new_temp(v.g)
            IN [g |-> Emit(t.g, Instruction("unop", t.val, node.op, v.val, None)),
                val |-> t.val]
      [] node.type = "Literal" -> [g |-> g, val |-> Str(node.value)]
      [] node.type = "VarRef" -> [g |-> g, val |-> node.name]
      [] node.type = "FuncCall" ->
            LET as == GenArgs(g, node.args, 1, <<>>)
                t  == new_temp(as.g)
            IN [g |-> Emit(t.g, Instruction("call", t.val, node.name,
                                            JoinComma(as.val), None)),
                val |-> t.val]
      [] node.type = "ReadStmt" ->
            [g |-> Emit(g, Instruction("read", node.name, None, None, None)), val |-> None]
      [] node.type = "ReadExpr" ->
            LET t == new_temp(g)
            IN [g |-> Emit(t.g, Instruction("read", t.val, None, None, None)),
                val |-> t.val]

\* _gen_FuncDecl
GenFuncDecl(g, node) ==
    LET g1 == Emit(g, Instruction("label", None, None, None, node.name))
        g2 == GenBlock(g1, node.body, 1, Len(node.body.stmts))
    IN Emit(g2, Instruction("ret", None, None, None, None))

\* _gen_Program
RECURSIVE GenProgram(_, _, _)
GenProgram(g, node, i) ==
    IF i > Len(node.funcs) THEN g
    ELSE GenProgram(GenFuncDecl(g, node.funcs[i]), node, i + 1)

\* IRGenerator().generate(prog)
generate(node) == GenProgram(NewGenerator, node, 1).code

(***************************************************************************)
(* codegen.py: CodeGenerator.  A listing is a sequence of lines; a line is  *)
(* [pos, op, args]: the text of the line split into its head and operands, *)
(* and the index of the instruction it was emitted for (0 for the lines    *)
(* the prologue and the epilogue write).  An emitter state cg is           *)
(* [ra |-> self.regalloc, asm |-> self.asm].                               *)
(***************************************************************************)
Line(pos, op, args) == [pos |-> pos, op |-> op, args |-> args]

Put(cg, pos, op, args) == [cg EXCEPT !.asm = Append(@, Line(pos, op, args))]

\* x.split(c)
RECURSIVE Split(_, _)
Split(x, c) ==
    IF ~Contains(x, c) THEN <<x>>
    ELSE LET rest == SplitAt(x, c)
         IN <<SubSeq(x, 1, Len(x) - Len(rest))>> \o Split(Tail(rest), c)

\* x.split(' ', 1)
Split1(x) ==
    IF ~Contains(x, " ") THEN <<x>>
    ELSE LET rest == SplitAt(x, " ")
         IN <<SubSeq(x, 1, Len(x) - Len(rest)), Tail(rest)>>

\* _is_memory(op)
cg_is_memory(op) == Contains(op, "[")

\* _operand(x): the allocator after the call and the operand text
cg_operand(ra, x) ==
    IF x = None THEN [ra |-> ra, val |-> <<"0">>]
    ELSE IF isdigit(x) THEN [ra |-> ra, val |-> x]
    ELSE LET r == get_location(ra, x)
         IN [ra  |-> r.ra,
             val |-> IF cg_is_memory(r.loc) THEN <<"q", "w", "o", "r", "d", " ">> \o r.loc
                     ELSE r.loc]

\* _binop_map and _cmp_map
cg_binop_map(op) ==
    CASE op = <<"+">> -> "add" [] op = <<"-">> -> "sub" [] op = <<"*">> -> "imul"

cg_cmp_map(op) ==
    CASE op = <<"<">> -> "setl"       [] op = <<"<", "=">> -> "setle"
      [] op = <<">">> -> "setg"       [] op = <<">", "=">> -> "setge"
      [] op = <<"=", "=">> -> "sete"  [] op = <<"!", "=">> -> "setne"

ArithOps == {<<"+">>, <<"-">>, <<"*">>}
CmpOps == {<<"<">>, <<"<", "=">>, <<">">>, <<">", "=">>, <<"=", "=">>, <<"!", "=">>}

\* _handle_binop(instr)
cg_handle_binop(cg, pos, instr) ==
    LET dst   == get_location(cg.ra, instr.dest)
        parts == Split1(instr.arg2)
        operator == parts[1]
        right_operand == IF Len(parts) > 1 THEN parts[2] ELSE parts[1]
        lhs   == cg_operand(dst.ra, instr.arg1)
        rhs   == cg_operand(lhs.ra, right_operand)
        c0    == [cg EXCEPT !.ra = rhs.ra]
    IN IF operator \in ArithOps
       THEN Put(Put(Put(c0, pos, "mov", <<rax, lhs.val>>),
                    pos, cg_binop_map(operator), <<rax, rhs.val>>),
                pos, "mov", <<dst.loc, rax>>)
       ELSE IF operator \in CmpOps
       THEN LET c1 == IF cg_is_memory(lhs.val) /\ cg_is_memory(rhs.val)
                      THEN Put(Put(c0, pos, "mov", <<rbx, rhs.val>>),
                               pos, "cmp", <<lhs.val, rbx>>)
                      ELSE Put(c0, pos, "cmp", <<lhs.val, rhs.val>>)
            IN Put(Put(Put(c1, pos, cg_cmp_map(operator), <<<<"a", "l">>>>),
                       pos, "movzx", <<rax, <<"a", "l">>>>),
                   pos, "mov", <<dst.loc, rax>>)
       ELSE Put(c0, pos, "; unhandled binop", <<operator>>)

\* _handle_unop(instr)
cg_handle_unop(cg, pos, instr) ==
    LET dst == get_location(cg.ra, instr.dest)
        val == cg_operand(dst.ra, instr.arg2)
        c0  == [cg EXCEPT !.ra = val.ra]
    IN Put(Put(Put(c0, pos, "mov", <<rax, val.val>>),
               pos, IF instr.arg2 = <<"-">> THEN "neg" ELSE "not", <<rax>>),
           pos, "mov", <<dst.loc, rax>>)

ArgRegs == <<rcx, rdx, <<"r", "8">>, <<"r", "9">>>>

\* the first loop of _handle_call: the first four arguments into registers
RECURSIVE cg_call_regs(_, _, _, _)
cg_call_regs(cg, pos, args, i) ==
    IF i > Len(args) \/ i > 4 THEN cg
    ELSE LET v == cg_operand(cg.ra, args[i])
         IN cg_call_regs(Put([cg EXCEPT !.ra = v.ra], pos, "mov", <<ArgRegs[i], v.val>>),
                         pos, args, i + 1)

\* the second loop of _handle_call: the other arguments pushed, last first
RECURSIVE cg_call_push(_, _, _, _)
cg_call_push(cg, pos, args, i) ==
    IF i <= 4 THEN cg
    ELSE LET v == cg_operand(cg.ra, args[i])
         IN cg_call_push(Put([cg EXCEPT !.ra = v.ra], pos, "push", <<v.val>>),
                         pos, args, i - 1)

\* _handle_call(instr)
cg_handle_call(cg, pos, instr) ==
    LET args == IF Truthy(instr.arg2) THEN Split(instr.arg2, ",") ELSE <<>>
        c1 == cg_call_regs(cg, pos, args, 1)
        c2 == cg_call_push(c1, pos, args, Len(args))
        c3 == Put(Put(Put(c2, pos, "sub", <<<<"r", "s", "p">>, Str(32)>>),
                      pos, "call", <<instr.arg1>>),
                  pos, "add", <<<<"r", "s", "p">>, Str(32)>>)
        c4 == IF Len(args) > 4
              THEN Put(c3, pos, "add", <<<<"r", "s", "p">>, Str(8 * (Len(args) - 4))>>)
              ELSE c3
    IN IF Truthy(instr.dest)
       THEN LET d == get_location(c4.ra, instr.dest)
            IN Put([c4 EXCEPT !.ra = d.ra], pos, "mov", <<d.loc, rax>>)
       ELSE c4

\* the three lines around a call of printf or scanf
cg_libcall(cg, pos, f) ==
    Put(Put(Put(cg, pos, "sub", <<<<"r", "s", "p">>, Str(32)>>),
            pos, "call", <<f>>),
        pos, "add", <<<<"r", "s", "p">>, Str(32)>>)

fmt_print == <<"f", "m", "t", "_", "p", "r", "i", "n", "t">>
fmt_read == <<"f", "m", "t", "_", "r", "e", "a", "d">>
printf == <<"p", "r", "i", "n", "t", "f">>
scanf == <<"s", "c", "a", "n", "f">>
main == <<"m", "a", "i", "n">>

\* _emit(instr)
cg_emit(cg, pos, instr) ==
    CASE instr.op = "label" /\ Truthy(instr.label) /\ instr.label # main ->
            Put(cg, pos, "label", <<instr.label>>)
      [] instr.op = "assign" ->
            LET dst == get_location(cg.ra, instr.dest)
                src == cg_operand(dst.ra, instr.arg1)
                c0  == [cg EXCEPT !.ra = src.ra]
            IN IF cg_is_memory(dst.loc) /\ cg_is_memory(src.val)
               THEN Put(Put(c0, pos, "mov", <<rax, src.val>>), pos, "mov", <<dst.loc, rax>>)
               ELSE Put(c0, pos, "mov", <<dst.loc, src.val>>)
      [] instr.op = "binop" -> cg_handle_binop(cg, pos, instr)
      [] instr.op = "unop" -> cg_handle_unop(cg, pos, instr)
      [] instr.op = "call" -> cg_handle_call(cg, pos, instr)
      [] instr.op = "print" ->
            LET val == cg_operand(cg.ra, instr.arg1)
                c0  == [cg EXCEPT !.ra = val.ra]
            IN cg_libcall(Put(Put(c0, pos, "mov", <<rcx, fmt_print>>),
                              pos, "mov", <<rdx, val.val>>),
                          pos, printf)
      [] instr.op = "read" ->
            LET loc == get_location(cg.ra, instr.dest)
            IN IF cg_is_memory(loc.loc)
               THEN cg_libcall(Put(Put([cg EXCEPT !.ra = loc.ra],
                                       pos, "mov", <<rcx, fmt_read>>),
                                   pos, "lea", <<rdx, loc.loc>>),
                               pos, scanf)
               ELSE LET slot == allocate_stack_slot(loc.ra, instr.dest)
                        addr == SlotLoc(slot.off)
                        c0   == Put([cg EXCEPT !.ra = slot.ra], pos, "mov", <<addr, loc.loc>>)
                        c1   == cg_libcall(Put(Put(c0, pos, "mov", <<rcx, fmt_read>>),
                                               pos, "lea", <<rdx, addr>>),
                                           pos, scanf)
                    IN Put(c1, pos, "mov", <<loc.loc, addr>>)
      [] instr.op = "ret" -> Put(cg, pos, "xor", <<rax, rax>>)
      [] instr.op = "ifz" ->
            LET cond == cg_operand(cg.ra, instr.arg1)
            IN Put(Put([cg EXCEPT !.ra = cond.ra], pos, "cmp", <<cond.val, <<"0">>>>),
                   pos, "je", <<instr.label>>)
      [] instr.op = "goto" -> Put(cg, pos, "jmp", <<instr.label>>)
      [] OTHER -> Put(cg, pos, "; unhandled", <<>>)

\* the for loop of generate over tac[lo..hi]
RECURSIVE cg_emit_all(_, _, _, _)
cg_emit_all(cg, ir, lo, hi) ==
    IF lo > hi THEN cg
    ELSE IF lo = hi THEN cg_emit(cg, lo, ir[lo])
    ELSE LET mid == (lo + hi) \div 2
             c1  == cg_emit_all(cg, ir, lo, mid)
         IN Then(c1, cg_emit_all(c1, ir, mid + 1, hi))

\* the lines generate writes before the instructions, given the frame size sz
cg_prologue(sz) ==
    << Line(0, "global", <<main>>),
       Line(0, "extern", <<printf>>),
       Line(0, "extern", <<scanf>>),
       Line(0, "section", <<<<".", "d", "a", "t", "a">>>>),
       Line(0, "db", <<fmt_print>>),
       Line(0, "db", <<fmt_read>>),
       Line(0, "section", <<<<".", "t", "e", "x", "t">>>>),
       Line(0, "label", <<main>>),
       Line(0, "push", <<<<"r", "b", "p">>>>),
       Line(0, "mov", <<<<"r", "b", "p">>, <<"r", "s", "p">>>>),
       Line(0, "sub", <<<<"r", "s", "p">>, Str(sz)>>) >>

cg_epilogue ==
    << Line(0, "mov", <<<<"r", "s", "p">>, <<"r", "b", "p">>>>),
       Line(0, "pop", <<<<"r", "b", "p">>>>),
       Line(0, "ret", <<>>) >>

\* __init__
NewCodeGenerator == [ra |-> NewAllocator, asm |-> <<>>]

\* generate(tac) on the emitter cg: the emitter after the call; the listing
\* returned is its asm
cg_generate(cg, ir) ==
    LET ra0 == reset(cg.ra)
        sz  == stack_size(ra0)
        aligned_sz == ((sz + 15) \div 16) * 16
        c0  == [ra  |-> ra0,
                asm |-> cg.asm \o cg_prologue(IF aligned_sz > 0 THEN aligned_sz + 32 ELSE 32)]
        c1  == cg_emit_all(c0, ir, 1, Len(ir))
    IN [c1 EXCEPT !.asm = @ \o cg_epilogue]

(***************************************************************************)
(* llvm_codegen.py: LLVMCodeGenerator.  An emitter state ll is             *)
(* [lines, regcnt, current_block]; lines are as in the native listing.     *)
(***************************************************************************)
IdStart == {"a", "b", "c", "d", "e", "f", "g", "h", "i", "j", "k", "l", "m", "n", "o",
            "p", "q", "r", "s", "t", "u", "v", "w", "x", "y", "z", "_",
            "A", "B", "C", "D", "E", "F", "G", "H", "I", "J", "K", "L", "M", "N", "O",
            "P", "Q", "R", "S", "T", "U", "V", "W", "X", "Y", "Z"}

\* str.isidentifier()
isidentifier(x) ==
    /\ x # <<>>
    /\ x[1] \in IdStart
    /\ \A i \in 1..Len(x) : x[i] \in IdStart \/ x[i] \in Digits

NewLLVM == [lines |-> <<>>, regcnt |-> 0, current_block |-> <<"e", "n", "t", "r", "y">>]

\* _emit(line)
ll_emit(ll, pos, op, args) == [ll EXCEPT !.lines = Append(@, Line(pos, op, args))]

\* _reg(): the emitter after the call and the register name
ll_reg(ll) == [ll |-> [ll EXCEPT !.regcnt = @ + 1], val |-> <<"%", "r">> \o Str(ll.regcnt)]

\* "%x" from "x"
Pct(x) == <<"%">> \o x

ptr_tok(x) == IF startswith(x, <<"%">>) THEN x ELSE Pct(x)

\* _handle_read(dest)
ll_handle_read(ll, pos, dest) ==
    ll_emit(ll_emit(ll, pos, "alloca", <<Pct(dest)>>), pos, "call scanf", <<Pct(dest)>>)

\* _handle_assign(dest, value)
ll_handle_assign(ll, pos, dest, value) ==
    LET l0 == ll_emit(ll, pos, "alloca", <<Pct(dest)>>)
    IN IF isidentifier(value)
       THEN LET tmp == ll_reg(l0)
            IN ll_emit(ll_emit(tmp.ll, pos, "load", <<tmp.val, Pct(value)>>),
                       pos, "store", <<tmp.val, Pct(dest)>>)
       ELSE ll_emit(l0, pos, "store", <<value, Pct(dest)>>)

ll_instr_map(op) ==
    CASE op = <<"+">> -> "add" [] op = <<"-">> -> "sub" [] op = <<"*">> -> "mul"

ll_cmp_map(op) ==
    CASE op = <<"<">> -> "icmp slt"      [] op = <<"<", "=">> -> "icmp sle"
      [] op = <<">">> -> "icmp sgt"      [] op = <<">", "=">> -> "icmp sge"
      [] op = <<"=", "=">> -> "icmp eq"  [] op = <<"!", "=">> -> "icmp ne"

\* _emit_arithmetic(dest, op, left, right)
ll_emit_arithmetic(ll, pos, dest, op, left, right) ==
    LET lval == ll_reg(ll)
        l1   == ll_emit(lval.ll, pos, "load", <<lval.val, ptr_tok(left)>>)
        rval == ll_reg(l1)
        l2   == ll_emit(rval.ll, pos, "load", <<rval.val, ptr_tok(right)>>)
        tmp  == ll_reg(l2)
        l3   == ll_emit(tmp.ll, pos, ll_instr_map(op), <<tmp.val, lval.val, rval.val>>)
    IN ll_emit(ll_emit(l3, pos, "alloca", <<Pct(dest)>>),
               pos, "store", <<tmp.val, Pct(dest)>>)

\* _emit_comparison(dest, op, left, right), for op in cmp_map
ll_emit_comparison(ll, pos, dest, op, left, right) ==
    LET lv == IF isidentifier(left) THEN Pct(left) ELSE left
        rv == IF isidentifier(right) THEN Pct(right) ELSE right
        t1 == ll_reg(ll)
        l1 == ll_emit(t1.ll, pos, ll_cmp_map(op), <<t1.val, lv, rv>>)
        t2 == ll_reg(l1)
        l2 == ll_emit(t2.ll, pos, "zext", <<t2.val, t1.val>>)
    IN ll_emit(ll_emit(l2, pos, "alloca", <<Pct(dest)>>),
               pos, "store", <<t2.val, Pct(dest)>>)

\* the calls of generate that raise: a binop whose arg2 does not split into an
\* operator and an operand (ValueError) or whose operator is in neither map
\* (KeyError), an assign or print of None (AttributeError)
ll_instr_raises(instr) ==
    \/ /\ instr.op = "binop"
       /\ \/ Len(Split1(instr.arg2)) # 2
          \/ Split1(instr.arg2)[1] \notin ArithOps \cup CmpOps
    \/ instr.op \in {"assign", "print"} /\ instr.arg1 = None

ll_raises(ir) == \E i \in 1..Len(ir) : ll_instr_raises(ir[i])

\* _handle_binop(dest, left, right_expr), when it does not raise
ll_handle_binop(ll, pos, dest, left, right_expr) ==
    LET parts == Split1(right_expr)
    IN IF parts[1] \in ArithOps
       THEN ll_emit_arithmetic(ll, pos, dest, parts[1], left, parts[2])
       ELSE ll_emit_comparison(ll, pos, dest, parts[1], left, parts[2])

\* _handle_print(value)
ll_handle_print(ll, pos, value) ==
    LET tmp == ll_reg(ll)
    IN ll_emit(ll_emit(tmp.ll, pos, "load", <<tmp.val, ptr_tok(value)>>),
               pos, "call printf", <<tmp.val>>)

\* _handle_ifz(cond, label)
ll_handle_ifz(ll, pos, cond, label) ==
    LET nextb == <<"n", "e", "x", "t">> \o Str(ll.regcnt)
        l1 == ll_emit(ll, pos, "load", <<<<"%", "c", "o", "n", "d">>, Pct(cond)>>)
        l2 == ll_emit(l1, pos, "icmp eq", <<<<"%", "c", "h", "e", "c", "k">>,
                                            <<"%", "c", "o", "n", "d">>, <<"0">>>>)
        l3 == ll_emit([l2 EXCEPT !.regcnt = @ + 1], pos, "br i1",
                      <<<<"%", "c", "h", "e", "c", "k">>, label, nextb>>)
        l4 == ll_emit(l3, pos, "label", <<nextb>>)
    IN [l4 EXCEPT !.current_block = nextb]

\* _handle_goto(label)
ll_handle_goto(ll, pos, label) ==
    [ll_emit(ll, pos, "br", <<label>>) EXCEPT !.current_block = None]

\* _handle_ret()
ll_handle_ret(ll, pos) == ll_emit(ll, pos, "ret i32", <<<<"0">>>>)

\* the body of generate's loop for one instruction
ll_step(ll, pos, instr) ==
    CASE instr.op = "label" ->
            IF instr.label # main
            THEN LET l1 == IF ll.current_block # instr.label
                           THEN ll_emit(ll, pos, "br", <<instr.label>>)
                           ELSE ll
                 IN [ll_emit(l1, pos, "label", <<instr.label>>)
                        EXCEPT !.current_block = instr.label]
            ELSE ll
      [] instr.op = "read" -> ll_handle_read(ll, pos, instr.dest)
      [] instr.op = "assign" -> ll_handle_assign(ll, pos, instr.dest, instr.arg1)
      [] instr.op = "binop" ->
            ll_handle_binop(ll, pos, instr.dest, instr.arg1, instr.arg2)
      [] instr.op = "print" -> ll_handle_print(ll, pos, instr.arg1)
      [] instr.op = "ifz" -> ll_handle_ifz(ll, pos, instr.arg1, instr.label)
      [] instr.op = "goto" -> ll_handle_goto(ll, pos, instr.label)
      [] instr.op = "ret" -> ll_handle_ret(ll, pos)
      [] OTHER -> ll

\* generate's loop over ir[lo..hi]
RECURSIVE ll_walk(_, _, _, _)
ll_walk(ll, ir, lo, hi) ==
    IF lo > hi THEN ll
    ELSE IF lo = hi THEN ll_step(ll, lo, ir[lo])
    ELSE LET mid == (lo + hi) \div 2
             l1  == ll_walk(ll, ir, lo, mid)
         IN Then(l1, ll_walk(l1, ir, mid + 1, hi))

ll_prologue ==
    << Line(0, "declare", <<printf>>),
       Line(0, "declare", <<scanf>>),
       Line(0, "constant", <<<<"@", ".", "i", "n">>>>),
       Line(0, "constant", <<<<"@", ".", "o", "u", "t">>>>),
       Line(0, "", <<>>),
       Line(0, "define", <<main>>),
       Line(0, "label", <<<<"e", "n", "t", "r", "y">>>>) >>

\* generate(ir), when it does not raise: the lines returned
ll_generate(ir) ==
    LET l0 == [NewLLVM EXCEPT !.lines = ll_prologue]
        l1 == ll_walk(l0, ir, 1, Len(ir))
        l2 == IF l1.current_block # <<"e", "n", "t", "r", "y">>
              THEN ll_emit(l1, 0, "ret i32", <<<<"0">>>>)
              ELSE l1
    IN Append(l2.lines, Line(0, "}", <<>>))

(***************************************************************************)
(* The parts of the state a run does not use                               *)
(***************************************************************************)
NoCall == [op |-> "new", name |-> None, ret |-> None, repeat |-> FALSE]

IsLocate(call) == call.op \in {"allocate", "get_location"}

AllocIdle ==
    /\ regalloc = NewAllocator
    /\ last = NoCall
    /\ first = EmptyDict
    /\ forced = EmptyDict
    /\ nforced = 0

OptIdle ==
    /\ tac = <<>>
    /\ optimized_tac = <<>>
    /\ prev = <<>>
    /\ done = <<>>
    /\ status = "ok"
    /\ prog = NoNode
    /\ stage = "lowered"
    /\ asm = <<>>
    /\ llvm_ir_lines = <<>>

\* nothing emitted yet
EmitIdle ==
    /\ asm = <<>>
    /\ llvm_ir_lines = <<>>

(***************************************************************************)
(* The passes applied to instruction lists                                 *)
(***************************************************************************)
IAssign(d, v)    == Instruction("assign", d, v, None, None)
IBinop(d, l, r)  == Instruction("binop", d, l, r, None)
IUnop(d, o, v)   == Instruction("unop", d, o, v, None)
ICall(d, f, as)  == Instruction("call", d, f, as, None)
IPrint(v)        == Instruction("print", None, v, None, None)
IRead(d)         == Instruction("read", d, None, None, None)
IRet             == Instruction("ret", None, None, None, None)
ILabel(l)        == Instruction("label", None, None, None, l)
IIfz(c, l)       == Instruction("ifz", None, c, None, l)
IIfnz(c, l)      == Instruction("ifnz", None, c, None, l)
IGoto(l)         == Instruction("goto", None, None, None, l)

MaxFoldLen == 2
MaxLen == 3
MaxLoopLen == 4

\* all lists over alphabet of length at most n
ListsOver(alphabet, n) == UNION {[1..k -> alphabet] : k \in 0..n}

\* foldable binops in the packed form constant_folding parses ("+3"), binops in
\* the form the Builder emits ("+ 3"), and uses of their destinations
FoldAlphabet ==
    { IBinop(<<"t", "0">>, <<"6">>, <<"/", "3">>),
      IBinop(<<"t", "0">>, <<"6">>, <<"/", " ", "3">>),
      IBinop(<<"t", "0">>, <<"7">>, <<"%", "0">>),
      IBinop(<<"t", "0">>, <<"7">>, <<"%", " ", "0">>),
      IBinop(<<"t", "1">>, <<"2">>, <<"+", "3">>),
      IBinop(<<"t", "1">>, <<"3">>, <<"-", "5">>),
      IBinop(<<"t", "1">>, <<"4">>, <<"*", "2">>),
      IBinop(<<"t", "1">>, <<"7">>, <<"%", "2">>),
      IBinop(<<"t", "2">>, <<"t", "1">>, <<"+", "t", "0">>),
      ICall(<<"t", "3">>, <<"f">>, <<"t", "1">>),
      IPrint(<<"t", "0">>) }

\* assignments, their uses as left operand, right operand and call argument,
\* and one instruction of every kind with a side effect
DeadAlphabet ==
    { IAssign(<<"a">>, <<"b">>),
      IAssign(<<"c">>, <<"a">>),
      IAssign(<<"b">>, <<"3">>),
      IPrint(<<"a">>),
      IBinop(<<"t", "0">>, <<"a">>, <<"+", " ", "b">>),
      ICall(<<"t", "1">>, <<"f">>, <<"b", ",", "c">>),
      IRead(<<"c">>),
      IRet,
      ILabel(<<"L", "0">>),
      IIfz(<<"t", "0">>, <<"L", "0">>),
      IIfnz(<<"t", "0">>, <<"L", "0">>),
      IGoto(<<"L", "0">>) }

\* one expression computed into three temporaries, a redefinition of its left
\* operand, a redefinition of the first temporary, and a label
ExprAlphabet ==
    { IBinop(<<"t", "0">>, <<"a">>, <<"+", " ", "b">>),
      IBinop(<<"t", "1">>, <<"a">>, <<"+", " ", "b">>),
      IBinop(<<"t", "2">>, <<"a">>, <<"+", " ", "b">>),
      IAssign(<<"a">>, <<"1">>),
      IAssign(<<"t", "0">>, <<"7">>),
      ILabel(<<"L", "0">>) }

\* a loop start label, the end label loop_invariant_motion looks for, the end
\* label the Builder emits, and body instructions
LoopAlphabet ==
    { ILabel(<<"f", "o", "r", "0">>),
      ILabel(<<"f", "o", "r", "0", "e", "n", "d">>),
      ILabel(<<"f", "o", "r", "e", "n", "d", "1">>),
      IBinop(<<"a">>, <<"1">>, <<"+", " ", "a">>),
      IAssign(<<"b">>, <<"1">>),
      IAssign(<<"c">>, <<"b">>) }

TacInputs ==
    ListsOver(FoldAlphabet, MaxFoldLen) \cup ListsOver(DeadAlphabet, MaxLen)
        \cup ListsOver(ExprAlphabet, MaxLoopLen) \cup ListsOver(LoopAlphabet, MaxLoopLen)

\* a pass may be applied to the input, and to its own output
CanApply(pass) ==
    /\ stage = "lowered"
    /\ EmitIdle
    /\ status = "ok"
    /\ done = <<>> \/ done = <<pass>>

\* the state after pass returned out
Applied(pass, out) ==
    /\ prev' = optimized_tac
    /\ optimized_tac' = out
    /\ done' = Append(done, pass)
    /\ UNCHANGED <<tac, status, allocVars, srcVars, emitVars>>

\* the state after pass raised
Raised(pass) ==
    /\ prev' = optimized_tac
    /\ optimized_tac' = <<>>
    /\ done' = Append(done, pass)
    /\ status' = "error"
    /\ UNCHANGED <<tac, allocVars, srcVars, emitVars>>

ConstantFolding ==
    /\ CanApply("constant_folding")
    /\ IF constant_folding_raises(optimized_tac)
       THEN Raised("constant_folding")
       ELSE Applied("constant_folding", constant_folding(optimized_tac))

DeadCodeElimination ==
    /\ CanApply("dead_code_elimination")
    /\ Applied("dead_code_elimination", dead_code_elimination(optimized_tac))

StrengthReduction ==
    /\ CanApply("strength_reduction")
    /\ Applied("strength_reduction", strength_reduction(optimized_tac))

CommonSubexpressionElimination ==
    /\ CanApply("common_subexpression_elimination")
    /\ Applied("common_subexpression_elimination", common_subexpression_elimination(optimized_tac))

LoopInvariantMotion ==
    /\ CanApply("loop_invariant_motion")
    /\ Applied("loop_invariant_motion", loop_invariant_motion(optimized_tac))

\* optimize(tac): the five passes in sequence
Optimize ==
    /\ stage = "lowered"
    /\ EmitIdle
    /\ status = "ok"
    /\ done = <<>>
    /\ IF constant_folding_raises(optimized_tac)
       THEN Raised("optimize")
       ELSE Applied("optimize", optimize(optimized_tac))

OptInit ==
    /\ AllocIdle
    /\ tac \in TacInputs
    /\ optimized_tac = tac
    /\ prev = tac
    /\ done = <<>>
    /\ status = "ok"
    /\ prog = NoNode
    /\ stage = "lowered"
    /\ EmitIdle

OptNext ==
    \/ ConstantFolding
    \/ DeadCodeElimination
    \/ StrengthReduction
    \/ CommonSubexpressionElimination
    \/ LoopInvariantMotion
    \/ Optimize

SpecOpt == OptInit /\ [][OptNext]_vars

(***************************************************************************)
(* Lowering checked programs, then optimizing                              *)
(***************************************************************************)
MaxDepth == 1

a_ == VarRef(<<"a">>)
b_ == VarRef(<<"b">>)

\* a < 3
Cond == BinOp(<<"<">>, a_, Literal(3))

\* the bodies without control flow
LeafBlocks ==
    { Block(<<>>),
      Block(<< PrintStmt(BinOp(<<"+">>, a_, b_)) >>),
      Block(<< VarDecl(<<"x">>, BinOp(<<"*">>, Literal(4), Literal(2))) >>),
      Block(<< PrintStmt(a_), Assign(<<"a">>, BinOp(<<"+">>, a_, Literal(1))) >>),
      Block(<< Assign(<<"a">>, BinOp(<<"+">>, Literal(1), a_)) >>) }

\* the control statements around body
Controls(body) ==
    { IfStmt(Cond, body, NoNode),
      WhileStmt(Cond, body),
      ForStmt(Assign(<<"a">>, Literal(0)), Cond,
              Assign(<<"a">>, BinOp(<<"+">>, a_, Literal(1))), body),
      ForStmt(NoNode, Cond, NoNode, body),
      SwitchStmt(a_, << Case(Literal(1), body) >>),
      SwitchStmt(a_, << Case(Literal(1), body), Case(NoNode, Block(<<>>)) >>) }
        \cup { IfStmt(Cond, body, e) : e \in LeafBlocks }

\* the blocks nesting control statements up to depth d
RECURSIVE Blocks(_)
Blocks(d) ==
    IF d = 0 THEN LeafBlocks
    ELSE LET S == UNION { Controls(body) : body \in Blocks(d - 1) }
         IN LeafBlocks \cup { Block(<<s>>) : s \in S } \cup { Block(<<s, s>>) : s \in S }

\* int a = 2; int b = 3; then the block
Body(block) ==
    Block(<< VarDecl(<<"a">>, Literal(2)), VarDecl(<<"b">>, Literal(3)) >> \o block.stmts)

Programs ==
    UNION { { Program(<< FuncDecl(<<"m", "a", "i", "n">>, Body(blk)) >>),
              Program(<< FuncDecl(<<"e", "l", "s", "e", "0">>, Body(blk)) >>),
              Program(<< FuncDecl(<<"w", "e", "n", "d", "1">>, Body(blk)) >>),
              Program(<< FuncDecl(<<"f", "o", "r", "x">>, Body(blk)),
                         FuncDecl(<<"f", "o", "r", "x", "e", "n", "d">>, Block(<<>>)) >>),
              Program(<< FuncDecl(<<"m", "a", "i", "n">>, Body(blk)),
                         FuncDecl(<<"f">>, Block(<<>>)) >>) }
            : blk \in Blocks(MaxDepth) }

\* main.py: tac = IRGenerator().generate(prog)
Generate ==
    /\ stage = "checked"
    /\ tac' = generate(prog)
    /\ optimized_tac' = tac'
    /\ prev' = tac'
    /\ stage' = "lowered"
    /\ UNCHANGED <<prog, done, status, allocVars, emitVars>>

BuildInit ==
    /\ AllocIdle
    /\ prog \in Programs
    /\ stage = "checked"
    /\ tac = <<>>
    /\ optimized_tac = <<>>
    /\ prev = <<>>
    /\ done = <<>>
    /\ status = "ok"
    /\ EmitIdle

BuildNext ==
    \/ Generate
    \/ OptNext

SpecBuild == BuildInit /\ [][BuildNext]_vars

(***************************************************************************)
(* The two emitters on a list                                              *)
(***************************************************************************)
MaxEmitLen == 3
MaxGenerate == 2

L0 == <<"L", "0">>

EmitAlphabet ==
    { IAssign(<<"a">>, <<"1">>),
      IAssign(<<"b">>, <<"a">>),
      IBinop(<<"t", "0">>, <<"a">>, <<"+", " ", "b">>),
      IBinop(<<"t", "1">>, <<"a">>, <<"<", " ", "3">>),
      IBinop(<<"t", "2">>, <<"a">>, <<"/", " ", "b">>),
      IUnop(<<"t", "0">>, <<"-">>, <<"a">>),
      ICall(<<"t", "1">>, <<"f">>, <<"a", ",", "b">>),
      IPrint(<<"a">>),
      IRead(<<"a">>),
      IRet,
      ILabel(L0),
      ILabel(main),
      IIfz(<<"t", "0">>, L0),
      IIfnz(<<"t", "0">>, L0),
      IGoto(L0) }

EmitInputs == ListsOver(EmitAlphabet, MaxEmitLen)

\* the calls of CodeGenerator.generate made so far on this emitter
Generated == Cardinality({k \in 1..Len(asm) : asm[k].op = "global"})

\* CodeGenerator.generate(optimized_tac) on the one emitter object
NativeGenerate ==
    /\ stage = "lowered"
    /\ status = "ok"
    /\ Generated < MaxGenerate
    /\ LET cg == cg_generate([ra |-> regalloc, asm |-> asm], optimized_tac)
       IN /\ regalloc' = cg.ra
          /\ asm' = cg.asm
    /\ last' = [op |-> "generate", name |-> None, ret |-> None, repeat |-> FALSE]
    /\ UNCHANGED <<first, forced, nforced, optVars, srcVars, llvm_ir_lines>>

\* main.py: llvm_ir_lines = LLVMCodeGenerator().generate(optimized_tac)
PortableGenerate ==
    /\ stage = "lowered"
    /\ status = "ok"
    /\ llvm_ir_lines = <<>>
    /\ IF ll_raises(optimized_tac)
       THEN /\ status' = "error"
            /\ UNCHANGED llvm_ir_lines
       ELSE /\ llvm_ir_lines' = ll_generate(optimized_tac)
            /\ UNCHANGED status
    /\ UNCHANGED <<allocVars, tac, optimized_tac, prev, done, srcVars, asm>>

EmitInit ==
    /\ AllocIdle
    /\ tac \in EmitInputs
    /\ optimized_tac = tac
    /\ prev = tac
    /\ done = <<>>
    /\ status = "ok"
    /\ prog = NoNode
    /\ stage = "lowered"
    /\ EmitIdle

EmitNext ==
    \/ NativeGenerate
    \/ PortableGenerate

SpecEmit == EmitInit /\ [][EmitNext]_vars

\* the Builder followed by the two emitters, without the optimizer
CompileNext ==
    \/ Generate
    \/ NativeGenerate
    \/ PortableGenerate

SpecCompile == BuildInit /\ [][CompileNext]_vars

(***************************************************************************)
(* The allocator driven by arbitrary calls                                 *)
(***************************************************************************)
NumNames == 6
MaxForced == 2

NamePool == << <<"a">>, <<"b">>, <<"c">>, <<"d">>, <<"e">>, <<"f">>, <<"g">>, <<"h">> >>

\* the names of the locate-only runs
LocateNames == {NamePool[i] : i \in 1..NumNames}

\* the names of the runs that also force stack slots: one more than the pool holds
Names == {<<"a">>, <<"b">>, <<"c">>, <<"d">>, <<"e">>}

AllocInit ==
    /\ AllocIdle
    /\ OptIdle

Located(name, r) ==
    /\ regalloc' = r.ra
    /\ first' = IF name \in DOMAIN first THEN first ELSE DictSet(first, name, r.loc)
    /\ UNCHANGED <<forced, nforced, pipeVars>>

Allocate(name) ==
    LET r == allocate(regalloc, name)
    IN /\ Located(name, r)
       /\ last' = [op |-> "allocate", name |-> name, ret |-> r.loc,
                   repeat |-> name \in DOMAIN first]

GetLocation(name) ==
    LET r == get_location(regalloc, name)
    IN /\ Located(name, r)
       /\ last' = [op |-> "get_location", name |-> name, ret |-> r.loc,
                   repeat |-> name \in DOMAIN first]

AllocateStackSlot(name) ==
    LET r == allocate_stack_slot(regalloc, name)
    IN /\ nforced < MaxForced
       /\ regalloc' = r.ra
       /\ forced' = DictSet(forced, name, SlotLoc(r.off))
       /\ nforced' = nforced + 1
       /\ UNCHANGED <<first, pipeVars>>
       /\ last' = [op |-> "allocate_stack_slot", name |-> name, ret |-> r.off,
                   repeat |-> FALSE]

Reset ==
    /\ regalloc' = reset(regalloc)
    /\ first' = EmptyDict
    /\ forced' = EmptyDict
    /\ nforced' = 0
    /\ UNCHANGED pipeVars
    /\ last' = [op |-> "reset", name |-> None, ret |-> None, repeat |-> FALSE]

AllocNext ==
    \/ \E name \in Names : Allocate(name)
    \/ \E name \in Names : GetLocation(name)
    \/ \E name \in Names : AllocateStackSlot(name)
    \/ Reset

SpecAlloc == AllocInit /\ [][AllocNext]_vars

\* locate calls only (allocate, get_location), between resets
LocateNext ==
    \/ \E name \in LocateNames : Allocate(name)
    \/ \E name \in LocateNames : GetLocation(name)
    \/ Reset

SpecLocate == AllocInit /\ [][LocateNext]_vars

(***************************************************************************)
(* Claims about the allocator                                              *)
(***************************************************************************)

\* C1 (as stated): between two resets, whatever locate and force_new_slot
\* calls were made, locate(name) returns the location that the first
\* locate(name) returned.
C1_LocationPermanence ==
    IsLocate(last) => last.ret = first[last.name]

\* C1 (amended): locate(name) returns the location of the first locate(name),
\* unless allocate_stack_slot(name) was called since the reset: then it returns
\* the slot the latest such call assigned.  A forced slot is the next offset.
C1_PermanenceUpToForcedSlot ==
    /\ IsLocate(last) =>
          last.ret = IF last.name \in DOMAIN forced THEN forced[last.name]
                     ELSE first[last.name]
    /\ last.op = "allocate_stack_slot" =>
          /\ last.ret = regalloc.next_slot
          /\ regalloc.locations[last.name] = SlotLoc(last.ret)

\* C1 witness: a repeated locate of a spilled name that was never forced
\* returns its first slot, after another name was moved to a forced slot.
C1_Witness ==
    /\ IsLocate(last) /\ last.repeat
    /\ last.name \notin DOMAIN forced
    /\ Contains(last.ret, "[")
    /\ \E n \in DOMAIN forced : n \in DOMAIN first /\ first[n] # forced[n]

\* the location the k-th distinct name is to receive
ExpectedLoc(k) ==
    IF k <= 4 THEN << <<"r", "a", "x">>, <<"r", "b", "x">>,
                      <<"r", "c", "x">>, <<"r", "d", "x">> >>[k]
    ELSE SlotLoc(8 * (k - 4))

\* C9: from a fresh or just-reset allocator, the k-th distinct name passed to
\* locate receives rax, rbx, rcx, rdx for k = 1..4 and the stack slot at
\* offset 8 * (k - 4) after that, and keeps it, whatever repeated locate calls
\* are interleaved.
C9_FirstSeenOrder ==
    /\ (IsLocate(last) /\ ~last.repeat) =>
          last.ret = ExpectedLoc(Cardinality(DOMAIN first))
    /\ \A n \in DOMAIN first : regalloc.locations[n] = first[n]
    /\ \A k \in 1..Cardinality(DOMAIN first) :
          \E n \in DOMAIN first : first[n] = ExpectedLoc(k)

\* C9 witness: the sixth distinct name has just received offset 16.
C9_Witness ==
    /\ IsLocate(last) /\ ~last.repeat
    /\ Cardinality(DOMAIN first) = 6
    /\ last.ret = SlotLoc(16)

(***************************************************************************)
(* Claims about the passes                                                 *)
(***************************************************************************)

\* the right operand of a binop, in the Builder's form ("+ b": what follows the
\* space) and in the packed form ("+3": what follows the one-character operator)
RightOperand(instr) ==
    IF Contains(instr.arg2, " ") THEN Tail(SplitAt(instr.arg2, " "))
    ELSE Tail(instr.arg2)

OperatorOf(instr) == Head(instr.arg2)

\* the integer obtained by applying operator sym to l and r (r # 0 for / and %),
\* truncating
TruncApply(l, sym, r) ==
    CASE sym = "+" -> l + r
      [] sym = "-" -> l - r
      [] sym = "*" -> l * r
      [] sym = "/" -> l \div r
      [] sym = "%" -> l % r

\* a binop over two integer literals with an arithmetic operator and, under / and
\* %, a non-zero divisor
LiteralBinop(instr) ==
    /\ instr.op = "binop"
    /\ OperatorOf(instr) \in {"+", "-", "*", "/", "%"}
    /\ isdigit(instr.arg1)
    /\ isdigit(RightOperand(instr))
    /\ OperatorOf(instr) \in {"/", "%"} => ParseInt(RightOperand(instr)) # 0

After(pass) == status = "ok" /\ done = <<pass>>

\* C2: dead-code elimination is idempotent: applied to its own output, it
\* returns that output unchanged.
C2_DceIdempotent ==
    (status = "ok" /\ done = <<"dead_code_elimination", "dead_code_elimination">>)
        => optimized_tac = prev

\* C3: constant folding is sound: every binop over two integer literals with
\* operator + - * / % (non-zero divisor) comes out as an assign of the integer
\* result, under truncating arithmetic, to the same destination.
C3_FoldingSound ==
    After("constant_folding") =>
        /\ Len(optimized_tac) = Len(prev)
        /\ \A i \in 1..Len(prev) :
              LiteralBinop(prev[i]) =>
                 optimized_tac[i] =
                    IAssign(prev[i].dest,
                            Str(TruncApply(ParseInt(prev[i].arg1), OperatorOf(prev[i]),
                                           ParseInt(RightOperand(prev[i])))))

\* instruction k of list assigns one of the operands of the binop e
Redefines(list, k, e) ==
    /\ Truthy(list[k].dest)
    /\ list[k].dest \in {e.arg1, RightOperand(e)}

\* binops i < j of list compute the same expression and no instruction between
\* them assigns one of its operands
SameExprNoRedef(list, i, j) ==
    /\ i < j
    /\ list[i].op = "binop" /\ list[j].op = "binop"
    /\ list[i].arg1 = list[j].arg1 /\ list[i].arg2 = list[j].arg2
    /\ \A k \in (i + 1)..(j - 1) : ~Redefines(list, k, list[i])

\* C4: of the binops that compute the same expression with no redefinition of
\* an operand between them, CSE keeps the first unchanged and rewrites every
\* later one to an assign copying the first one's destination.
C4_CseCorrect ==
    After("common_subexpression_elimination") =>
        /\ Len(optimized_tac) = Len(prev)
        /\ \A i, j \in 1..Len(prev) :
              (/\ SameExprNoRedef(prev, i, j)
               /\ \A h \in 1..(i - 1) : ~SameExprNoRedef(prev, h, i))
              => /\ optimized_tac[i] = prev[i]
                 /\ optimized_tac[j] = IAssign(prev[j].dest, prev[i].dest)

(***************************************************************************)
(* Claims about the Builder and the optimizer behind it                    *)
(***************************************************************************)
Lowered == stage = "lowered" /\ prog # NoNode

Count(list, x) == Cardinality({k \in 1..Len(list) : list[k] = x})

Branches == {"ifz", "ifnz", "goto"}

\* C5: in the list the Builder generates, every label an ifz, ifnz or goto names
\* is defined by exactly one label instruction.
C5_LabelsDefinedOnce ==
    Lowered =>
        \A i \in 1..Len(tac) :
            tac[i].op \in Branches =>
                Cardinality({j \in 1..Len(tac) :
                                tac[j].op = "label" /\ tac[j].label = tac[i].label}) = 1

\* func main(){int a=2; int b=3; print(a+b);}
ScenarioA ==
    Program(<< FuncDecl(<<"m", "a", "i", "n">>,
                 Block(<< VarDecl(<<"a">>, Literal(2)), VarDecl(<<"b">>, Literal(3)),
                          PrintStmt(BinOp(<<"+">>, a_, b_)) >>)) >>)

\* C6: for Scenario A the generated list has one add binop, whose destination the
\* print consumes, and the optimized list assigns the literal 5 to the value
\* that print consumes, the binop being gone.
C6_ScenarioAFolded ==
    (Lowered /\ prog = ScenarioA) =>
        /\ \E i, j \in 1..Len(tac) :
              /\ tac[i].op = "binop" /\ OperatorOf(tac[i]) = "+"
              /\ tac[j] = IPrint(tac[i].dest)
              /\ \A k \in 1..Len(tac) : tac[k].op = "binop" => k = i
        /\ (status = "ok" /\ done = <<"optimize">>) =>
              /\ \E i, j \in 1..Len(optimized_tac) :
                    /\ optimized_tac[j].op = "print"
                    /\ optimized_tac[i] = IAssign(optimized_tac[j].arg1, <<"5">>)
              /\ \A k \in 1..Len(optimized_tac) : optimized_tac[k].op # "binop"

\* a binop that multiplies its left operand by the literal 2
TimesTwo(instr) ==
    /\ instr.op = "binop"
    /\ OperatorOf(instr) = "*"
    /\ RightOperand(instr) = <<"2">>

\* C7: strength reduction turns every multiplication by the literal 2 of the
\* Builder's list into a shl1 unop over the same left operand and destination,
\* and passes every other instruction through unchanged.
C7_TimesTwoBecomesShift ==
    (Lowered /\ status = "ok" /\ done = <<"strength_reduction">>) =>
        /\ Len(optimized_tac) = Len(prev)
        /\ \A i \in 1..Len(prev) :
              optimized_tac[i] = IF TimesTwo(prev[i])
                                 THEN IUnop(prev[i].dest, shl1, prev[i].arg1)
                                 ELSE prev[i]

\* the while loops of list: <<i, j>> with list[i] the start label while<n> and
\* list[j] the first label wend<n+1> after it
WhileLoops(list) ==
    {p \in (1..Len(list)) \X (1..Len(list)) :
        /\ p[1] < p[2]
        /\ list[p[1]].op = "label" /\ list[p[2]].op = "label"
        /\ \E n \in 0..Len(list) :
              /\ list[p[1]].label = <<"w", "h", "i", "l", "e">> \o Str(n)
              /\ list[p[2]].label = <<"w", "e", "n", "d">> \o Str(n + 1)
        /\ \A k \in (p[1] + 1)..(p[2] - 1) :
              ~(list[k].op = "label" /\ list[k].label = list[p[2]].label)}

\* the while statements of a block, nested ones included
RECURSIVE NumWhile(_)
NumWhile(node) ==
    CASE node.type = "Block" ->
            IF node.stmts = <<>> THEN 0
            ELSE NumWhile(Head(node.stmts)) + NumWhile(Block(Tail(node.stmts)))
      [] node.type = "WhileStmt" -> 1 + NumWhile(node.body)
      [] node.type = "IfStmt" ->
            NumWhile(node.thenb) + (IF node.elseb # NoNode THEN NumWhile(node.elseb) ELSE 0)
      [] node.type = "ForStmt" -> NumWhile(node.body)
      [] node.type = "SwitchStmt" ->
            IF node.cases = <<>> THEN 0
            ELSE NumWhile(Head(node.cases).body)
                    + NumWhile(SwitchStmt(node.expr, Tail(node.cases)))
      [] OTHER -> 0

\* the names instr reads: its left operand and, for a binop, its right operand
Operands(instr) ==
    {instr.arg1} \cup (IF instr.op = "binop" THEN {RightOperand(instr)} ELSE {})

\* C8: every while loop is lowered to label(start), condition, ifz to end, body,
\* goto start, label(end) with start and end a matched pair, and the optimizer
\* adds no second copy of a loop-body binop whose operand the body redefines.
C8_WhileShapeNoDuplicate ==
    Lowered =>
        /\ Cardinality(WhileLoops(tac)) = NumWhile(prog.funcs[1].body)
        /\ \A p \in WhileLoops(tac) :
              /\ tac[p[1] + 1].op = "binop"
              /\ tac[p[1] + 2] = IIfz(tac[p[1] + 1].dest, tac[p[2]].label)
              /\ tac[p[2] - 1] = IGoto(tac[p[1]].label)
        /\ (status = "ok" /\ done = <<"optimize">>) =>
              \A p \in WhileLoops(tac) : \A k \in (p[1] + 3)..(p[2] - 2) :
                  (/\ tac[k].op = "binop"
                   /\ \E h \in (p[1] + 1)..(p[2] - 1) : tac[h].dest \in Operands(tac[k]))
                  => Count(optimized_tac, tac[k]) <= 1

(***************************************************************************)
(* Claims about the emitters                                               *)
(***************************************************************************)
\* the lines of a listing written for the instructions, whose head is in ops
Shape(listing, ops) == SelectSeq(listing, LAMBDA ln : ln.pos >= 1 /\ ln.op \in ops)

\* <<position, label>> of each such line; the label is the last operand but
\* for a two-way branch, where it is the target taken when the test holds
Targets(listing, ops) ==
    LET sh == Shape(listing, ops)
    IN [k \in 1..Len(sh) |->
          <<sh[k].pos, IF sh[k].op = "br i1" THEN sh[k].args[2] ELSE sh[k].args[1]>>]

\* both listings were emitted, each by one call, from the same list
BothEmitted == Generated = 1 /\ llvm_ir_lines # <<>> /\ status = "ok"

\* C10: the native and the portable listing of a list open the same block
\* labels, in the same order, at the same positions, and branch to the same
\* labels at the same positions.
C10_SameBlocksAndBranches ==
    BothEmitted =>
        /\ Targets(asm, {"label"}) = Targets(llvm_ir_lines, {"label"})
        /\ Targets(asm, {"je", "jmp"}) = Targets(llvm_ir_lines, {"br", "br i1"})

(***************************************************************************)
(* Further claims about the passes                                         *)
(***************************************************************************)
\* the last pass applied, on prev, was pass (whether it returned or raised)
Ran(pass) == done # <<>> /\ done[Len(done)] = pass

\* a binop dividing an integer literal by the literal 0, under / or %
ZeroDivide(instr) ==
    /\ instr.op = "binop"
    /\ OperatorOf(instr) \in {"/", "%"}
    /\ isdigit(instr.arg1)
    /\ isdigit(RightOperand(instr))
    /\ ParseInt(RightOperand(instr)) = 0

\* C11: constant folding given a list with a division or modulo of an integer
\* literal by the literal 0 aborts: it raises and returns no list.
C11_ZeroDivisionFatal ==
    (Ran("constant_folding") /\ \E i \in 1..Len(prev) : ZeroDivide(prev[i]))
        => status = "error" /\ optimized_tac = <<>>

\* the names instr reads: arg1 and arg2 whole, the right operand of a binop, the
\* arguments of a call
Reads(instr) ==
    {instr.arg1, instr.arg2}
        \cup (IF instr.op = "binop" THEN {RightOperand(instr)} ELSE {})
        \cup (IF instr.op = "call" /\ Truthy(instr.arg2)
              THEN {Split(instr.arg2, ",")[k] : k \in 1..Len(Split(instr.arg2, ","))}
              ELSE {})

\* C12: the output of dead-code elimination has no plain assign whose
\* destination no later instruction of the output reads.
C12_NoDeadAssignLeft ==
    (status = "ok" /\ Ran("dead_code_elimination")) =>
        \A i \in 1..Len(optimized_tac) :
            optimized_tac[i].op = "assign" =>
                \E j \in (i + 1)..Len(optimized_tac) :
                    optimized_tac[i].dest \in Reads(optimized_tac[j])

SideEffecting == {"print", "read", "call", "ret", "label", "ifz", "ifnz", "goto"}

SideEffects(list) == SelectSeq(list, LAMBDA ins : ins.op \in SideEffecting)

\* C13: dead-code elimination keeps every print, read, call, ret, label, ifz,
\* ifnz and goto of its input, in the same relative order.
C13_SideEffectsRetained ==
    (status = "ok" /\ Ran("dead_code_elimination")) =>
        SideEffects(optimized_tac) = SideEffects(prev)

\* the pass has run on a list with a call whose destination nothing reads, has
\* dropped an assignment and has kept the call
C13_Witness ==
    /\ status = "ok" /\ Ran("dead_code_elimination")
    /\ \E j \in 1..Len(prev) :
          /\ prev[j].op = "call"
          /\ \A k \in 1..Len(prev) : prev[j].dest \notin Reads(prev[k])
          /\ Count(optimized_tac, prev[j]) >= 1
    /\ Len(optimized_tac) < Len(prev)

\* s is t with some elements left out: the elements of s occur in t in order
RECURSIVE IsSubseq(_, _)
IsSubseq(s, t) ==
    IF s = <<>> THEN TRUE
    ELSE IF t = <<>> THEN FALSE
    ELSE IF Head(s) = Head(t) THEN IsSubseq(Tail(s), Tail(t))
    ELSE IsSubseq(s, Tail(t))

\* C14: loop-invariant motion only inserts copies: its input is what is left of
\* its output when the inserted instructions are removed, so every instruction
\* of the input, the loop's end label included, is in the output, in order.
C14_MotionOnlyInserts ==
    (status = "ok" /\ Ran("loop_invariant_motion")) => IsSubseq(prev, optimized_tac)

\* the loops of list that a label starting with "for" opens: <<i, j>> with
\* list[j] the first label after i named list[i].label followed by "end"
ForLoops(list) ==
    {p \in (1..Len(list)) \X (1..Len(list)) :
        /\ p[1] < p[2]
        /\ list[p[1]].op = "label" /\ startswith(list[p[1]].label, <<"f", "o", "r">>)
        /\ list[p[2]].op = "label"
        /\ list[p[2]].label = list[p[1]].label \o <<"e", "n", "d">>
        /\ \A k \in (p[1] + 1)..(p[2] - 1) :
              ~(list[k].op = "label" /\ list[k].label = list[p[2]].label)}

\* the values instr computes from: both operands of a binop, the operand of a
\* unop, the source of an assign
SourceOperands(instr) ==
    CASE instr.op = "binop" -> {instr.arg1, RightOperand(instr)}
      [] instr.op = "unop" -> {instr.arg2}
      [] OTHER -> {instr.arg1}

\* C15: an instruction that loop-invariant motion duplicates is a binop, unop or
\* assign of a loop body none of whose source operands is the destination of
\* an instruction of that body.
C15_InvarianceCriterion ==
    (status = "ok" /\ Ran("loop_invariant_motion")) =>
        \A i \in 1..Len(prev) :
            Count(optimized_tac, prev[i]) > Count(prev, prev[i]) =>
                /\ prev[i].op \in {"binop", "unop", "assign"}
                /\ \E p \in ForLoops(prev) :
                      /\ p[1] < i /\ i < p[2]
                      /\ \A k \in (p[1] + 1)..(p[2] - 1) :
                            prev[k].dest \notin SourceOperands(prev[i])

(***************************************************************************)
(* Further claims about the emitters                                       *)
(***************************************************************************)
\* the lines of listing written for the instruction at position k
LinesAt(listing, k) == SelectSeq(listing, LAMBDA ln : ln.pos = k)

OpsAt(listing, k) == [i \in 1..Len(LinesAt(listing, k)) |-> LinesAt(listing, k)[i].op]

\* the visible placeholder lines
Placeholders == {"; unhandled", "; unhandled binop"}

HasPlaceholder(listing, k) ==
    \E i \in 1..Len(listing) : listing[i].pos = k /\ listing[i].op \in Placeholders

\* the instructions CodeGenerator._emit and _handle_binop have no rule for
NativeNoRule(instr) ==
    \/ instr.op \notin {"label", "assign", "binop", "unop", "call", "print", "read",
                        "ret", "ifz", "goto"}
    \/ instr.op = "binop" /\ Split1(instr.arg2)[1] \notin ArithOps \cup CmpOps

\* the instructions LLVMCodeGenerator.generate and _handle_binop have no rule for
PortableNoRule(instr) ==
    \/ instr.op \notin {"label", "read", "assign", "binop", "print", "ifz", "goto", "ret"}
    \/ instr.op = "binop" /\ Split1(instr.arg2)[1] \notin ArithOps \cup CmpOps

\* LLVMCodeGenerator.generate has been called
PortableAttempted == llvm_ir_lines # <<>> \/ status = "error"

\* C16: an instruction an emitter has no lowering rule for gets a visible
\* placeholder line in that emitter's listing, and the emitter does not abort:
\* the native emitter once it has run, the portable emitter once it was called.
C16_PlaceholderAndContinue ==
    /\ Generated >= 1 =>
          \A k \in 1..Len(optimized_tac) :
              NativeNoRule(optimized_tac[k]) => HasPlaceholder(asm, k)
    /\ PortableAttempted =>
          /\ status = "ok"
          /\ \A k \in 1..Len(optimized_tac) :
                PortableNoRule(optimized_tac[k]) => HasPlaceholder(llvm_ir_lines, k)

\* the bytes the prologue of the first generate reserves: the operand of its
\* "sub rsp" line
Reserved == ParseInt(asm[11].args[2])

\* C17: the prologue reserves at least the allocator's frame size for the stack
\* slots assigned while emitting the sequence plus the 32 bytes of call scratch.
C17_FrameCoversSlots ==
    Generated = 1 => Reserved >= stack_size(regalloc) + 32

\* C19: for a unop the native emitter loads the operand into the accumulator,
\* negates it when the operator is unary minus and complements it when the
\* operator is "!", and stores the accumulator to the destination.
C19_UnaryLowering ==
    Generated >= 1 =>
        \A k \in 1..Len(optimized_tac) :
            optimized_tac[k].op = "unop" =>
                \E i \in 1..Len(asm) :
                    /\ asm[i].pos = k
                    /\ asm[i].op = (IF optimized_tac[k].arg1 = <<"-">> THEN "neg" ELSE "not")

\* the conditional jumps of the native listing and of the portable listing
NativeCondJumps == {"je", "jne", "jz", "jnz"}
PortableCondJumps == {"br i1"}

\* listing has, for the instruction at position k, a conditional branch of
\* kind jumps to label
BranchesTo(listing, k, jumps, label) ==
    \E i \in 1..Len(listing) :
        /\ listing[i].pos = k
        /\ listing[i].op \in jumps
        /\ \E a \in 1..Len(listing[i].args) : listing[i].args[a] = label

\* C18: each ifnz the Builder emits for a value-bearing switch case is lowered
\* by the native emitter and by the portable emitter to a conditional branch
\* to that case's label.
C18_IfnzLowered ==
    \A k \in 1..Len(tac) :
        (tac[k].op = "ifnz" /\ optimized_tac = tac) =>
            /\ Generated >= 1 => BranchesTo(asm, k, NativeCondJumps, tac[k].label)
            /\ llvm_ir_lines # <<>> =>
                  BranchesTo(llvm_ir_lines, k, PortableCondJumps, tac[k].label)

\* constant_folding replaced the binop at position i of its input by an
\* assignment of a constant to the same destination
FoldedAt(i) ==
    /\ prev[i].op = "binop"
    /\ optimized_tac[i].op = "assign"
    /\ optimized_tac[i].dest = prev[i].dest

\* C20: once constant_folding has folded a binop into an assignment to d, no
\* later instruction of the output that used d as an operand (an operand of a
\* binop and a call argument included) still names d: d is replaced by the
\* constant.
C20_FoldedConstantPropagated ==
    (status = "ok" /\ Ran("constant_folding") /\ Len(optimized_tac) = Len(prev)) =>
        \A i \in 1..Len(prev) : \A j \in (i + 1)..Len(prev) :
            (/\ FoldedAt(i)
             /\ prev[i].dest \in Reads(prev[j])
             /\ \A k \in (i + 1)..(j - 1) : prev[k].dest # prev[i].dest)
                => prev[i].dest \notin Reads(optimized_tac[j])

(***************************************************************************)
(* Claims about repeated generation, liveness of values and locations      *)
(***************************************************************************)
\* what a freshly constructed emitter produces for the current input
FreshUnit == cg_generate(NewCodeGenerator, optimized_tac)

\* C21: after a second generate on the same emitter, the listing returned and
\* the locations assigned are those of a freshly constructed emitter for the
\* second input: no line, mapping, pool register or slot count carries over.
C21_NoLeakBetweenUnits ==
    Generated = 2 => /\ asm = FreshUnit.asm
                     /\ regalloc = FreshUnit.ra

\* the instruction at position i of the pass's input occurs once in the input
\* and is in the output
KeptOnce(i) == Count(prev, prev[i]) = 1 /\ Count(optimized_tac, prev[i]) = 1

\* C22: an assign whose destination is read by a later instruction that
\* dead_code_elimination keeps (as left operand, as right operand of a binop
\* or as a call argument) is itself kept.
C22_LiveAssignKept ==
    (status = "ok" /\ Ran("dead_code_elimination")) =>
        \A i \in 1..Len(prev) : \A j \in (i + 1)..Len(prev) :
            (/\ prev[i].op = "assign"
             /\ Count(prev, prev[i]) = 1
             /\ KeptOnce(j)
             /\ prev[i].dest \in Reads(prev[j]))
                => KeptOnce(i)

\* common_subexpression_elimination rewrote the binop at position j of its
\* input into a copy
RewrittenAt(j) ==
    /\ prev[j].op = "binop"
    /\ optimized_tac[j].op = "assign"
    /\ optimized_tac[j].dest = prev[j].dest

\* the binop at position i < j is a valid source for the copy at j: the same
\* expression, its destination the one copied, and between the two neither an
\* assignment to an operand or to that destination nor a label or branch
FreshSource(i, j) ==
    /\ prev[i].op = "binop"
    /\ prev[i].arg1 = prev[j].arg1 /\ prev[i].arg2 = prev[j].arg2
    /\ prev[i].dest = optimized_tac[j].arg1
    /\ \A k \in (i + 1)..(j - 1) :
          /\ prev[k].dest \notin {prev[j].arg1, RightOperand(prev[j]), prev[i].dest}
          /\ prev[k].op \notin {"label", "ifz", "ifnz", "goto"}

\* C23: CSE rewrites a binop into a copy of an earlier binop's destination only
\* if no instruction between the two assigns an operand of the expression or
\* the earlier destination, and no label or branch lies between them.
C23_NoStaleReuse ==
    (status = "ok" /\ Ran("common_subexpression_elimination")
        /\ Len(optimized_tac) = Len(prev)) =>
        \A j \in 1..Len(prev) :
            RewrittenAt(j) => \E i \in 1..(j - 1) : FreshSource(i, j)

\* the positions of list where a for loop lowered by the Builder starts: a
\* label "for<n>" that a later goto jumps back to, the goto followed by the
\* loop's end label
BackJump(list, s, g) ==
    /\ s < g /\ g < Len(list)
    /\ list[g].op = "goto" /\ list[g].label = list[s].label
    /\ list[g + 1].op = "label"

BuilderForStarts(list) ==
    {s \in 1..Len(list) :
        /\ list[s].op = "label"
        /\ startswith(list[s].label, <<"f", "o", "r">>)
        /\ Len(list[s].label) > 3
        /\ isdigit(SubSeq(list[s].label, 4, Len(list[s].label)))
        /\ \E g \in 1..Len(list) : BackJump(list, s, g)}

\* the end label the Builder emitted for the loop starting at s
EmittedEnd(list, s) ==
    list[(CHOOSE g \in 1..Len(list) : BackJump(list, s, g)) + 1].label

\* the labels loop_invariant_motion takes for a loop start
TakenForStart(list) ==
    {k \in 1..Len(list) :
        /\ list[k].op = "label" /\ Truthy(list[k].label)
        /\ startswith(list[k].label, <<"f", "o", "r">>)}

ForStartsOfTac == BuilderForStarts(tac)

\* C24: for every for loop the Builder lowered, the start label followed by
\* "end" is the end label the Builder emitted, and loop_invariant_motion takes
\* no other label for a loop start.
C24_LoopsRecognised ==
    Lowered =>
        /\ \A s \in ForStartsOfTac :
              tac[s].label \o <<"e", "n", "d">> = EmittedEnd(tac, s)
        /\ TakenForStart(tac) \subseteq ForStartsOfTac

\* the instructions of the listing that write their first operand
WritingOps ==
    {"mov", "add", "sub", "imul", "lea", "movzx", "xor", "neg", "not",
     "setl", "setle", "setg", "setge", "sete", "setne"}

\* the line changes register reg: it writes it, and not with its own value
Writes(ln, reg) ==
    /\ ln.op \in WritingOps
    /\ Len(ln.args) >= 1 /\ ln.args[1] = reg
    /\ ~(ln.op = "mov" /\ ln.args[2] = reg)

\* name was defined by an instruction before position k of the sequence and
\* holds a register of the pool
DefinedInRegister(name, k) ==
    /\ \E i \in 1..(k - 1) : optimized_tac[i].dest = name
    /\ name \in DOMAIN regalloc.locations
    /\ \E r \in 1..Len(PoolRegs) : PoolRegs[r] = regalloc.locations[name]

\* C25: the code emitted for one instruction never writes a register the
\* allocator has assigned to a name other than that instruction's destination.
C25_ScratchDoesNotClobber ==
    Generated >= 1 =>
        \A n \in 1..Len(asm) :
            LET k == asm[n].pos
            IN k >= 1 =>
                \A name \in DOMAIN regalloc.locations :
                    (DefinedInRegister(name, k) /\ optimized_tac[k].dest # name)
                        => ~Writes(asm[n], regalloc.locations[name])

\* loc is a register of the pool
IsPoolReg(loc) == \E r \in 1..Len(PoolRegs) : PoolRegs[r] = loc

\* loc is a stack slot at a positive multiple of 8 up to the high-water mark
IsIssuedSlot(loc) == \E k \in 1..(regalloc.next_slot \div 8) : loc = SlotLoc(8 * k)

\* the locations held by the names of dictionary d
Held(d) == {d[n] : n \in DOMAIN d}

\* C26: in every state reachable by allocate, get_location,
\* allocate_stack_slot and reset calls, no two names are mapped to the same
\* register or stack offset, every stack offset issued is a positive multiple
\* of 8 no greater than next_slot, and a register taken from the pool is not
\* handed to a second name before the next reset (it is neither back in the
\* pool nor the first location of two names).
C26_LocationsExclusive ==
    /\ \A n, m \in DOMAIN regalloc.locations :
          n # m => regalloc.locations[n] # regalloc.locations[m]
    /\ \A loc \in Held(regalloc.locations) \cup Held(first) \cup Held(forced) :
          IsPoolReg(loc) \/ IsIssuedSlot(loc)
    /\ last.op = "allocate_stack_slot" =>
          /\ last.ret > 0 /\ last.ret % 8 = 0 /\ last.ret <= regalloc.next_slot
    /\ \A n, m \in DOMAIN first :
          (n # m /\ IsPoolReg(first[n])) => first[n] # first[m]
    /\ \A r \in 1..Len(regalloc.free_regs) :
          regalloc.free_regs[r] \notin Held(regalloc.locations) \cup Held(first)

\* C26 witness: the pool is exhausted, five names hold five locations, one of
\* them was moved from its register to a forced slot after another name had
\* been spilled.
C26_Witness ==
    /\ regalloc.free_regs = <<>>
    /\ Cardinality(DOMAIN regalloc.locations) = 5
    /\ Cardinality(Held(regalloc.locations)) = 5
    /\ regalloc.next_slot >= 16
    /\ \E n \in DOMAIN forced :
          /\ n \in DOMAIN first /\ IsPoolReg(first[n])
          /\ regalloc.locations[n] = forced[n]
    /\ \E m \in DOMAIN first : m \notin DOMAIN forced /\ ~IsPoolReg(first[m])

====
